---------------------------- MODULE Spec2Model ----------------------------
(***************************************************************************)
(* Content-tagging form (ContentForm): the text-similarity scorer, the     *)
(* per-category recommendation aggregation and the auto-apply effect.      *)
(*                                                                         *)
(* Text is a sequence of one-character strings, so that lower-casing,      *)
(* trimming and the split on /\W+/ are computed character by character.    *)
(***************************************************************************)
EXTENDS Integers, Sequences, FiniteSets, TLC

(***************************************************************************)
(* Characters and strings                                                  *)
(***************************************************************************)
UpperCase ==
    <<"A", "B", "C", "D", "E", "F", "G", "H", "I", "J", "K", "L", "M",
      "N", "O", "P", "Q", "R", "S", "T", "U", "V", "W", "X", "Y", "Z">>

LowerCase ==
    <<"a", "b", "c", "d", "e", "f", "g", "h", "i", "j", "k", "l", "m",
      "n", "o", "p", "q", "r", "s", "t", "u", "v", "w", "x", "y", "z">>

Digits == {"0", "1", "2", "3", "4", "5", "6", "7", "8", "9"}

Range(s) == {s[i] : i \in DOMAIN s}

\* \w of the regular expression: letter, digit or underscore.
WordChars == Range(UpperCase) \cup Range(LowerCase) \cup Digits \cup {"_"}

IsWordChar(c) == c \in WordChars

\* White space removed by String.prototype.trim.
WhiteSpace == {" ", "\t", "\n"}

LowerOf ==
    [c \in Range(UpperCase) |->
        LowerCase[CHOOSE i \in DOMAIN UpperCase : UpperCase[i] = c]]

LowerChar(c) == IF c \in DOMAIN LowerOf THEN LowerOf[c] ELSE c

\* String.prototype.toLowerCase
ToLowerCase(text) == [i \in DOMAIN text |-> LowerChar(text[i])]

RECURSIVE TrimStart(_)
TrimStart(text) ==
    IF text # <<>> /\ Head(text) \in WhiteSpace THEN TrimStart(Tail(text)) ELSE text

RECURSIVE TrimEnd(_)
TrimEnd(text) ==
    IF text # <<>> /\ text[Len(text)] \in WhiteSpace
    THEN TrimEnd(SubSeq(text, 1, Len(text) - 1))
    ELSE text

TrimOmitted(text) == text

\* String.prototype.trim
Trim(text) == TrimEnd(TrimStart(text))

\* The template literal `${a} ${b}`.
Template(a, b) == a \o <<" ">> \o b

\* The k-th smallest element of a set of integers.
Nth(S, k) == CHOOSE x \in S : Cardinality({y \in S : y < x}) = k - 1

\* text.split(/\W+/): the pieces between maximal runs of non-word characters;
\* a separator at either end of the text (and the empty text) leaves an empty
\* piece there.
SplitNonWord(text) ==
    LET n == Len(text)
        starts == {i \in 1..n : IsWordChar(text[i]) /\ (i = 1 \/ ~IsWordChar(text[i - 1]))}
        ends == {j \in 1..n : IsWordChar(text[j]) /\ (j = n \/ ~IsWordChar(text[j + 1]))}
        pieces == [k \in 1..Cardinality(starts) |->
                     SubSeq(text, Nth(starts, k), Nth(ends, k))]
    IN  (IF n = 0 \/ ~IsWordChar(text[1]) THEN << <<>> >> ELSE <<>>)
        \o pieces
        \o (IF n > 0 /\ ~IsWordChar(text[n]) THEN << <<>> >> ELSE <<>>)

(***************************************************************************)
(* Tokenizer and frequency counter                                         *)
(***************************************************************************)
\* The reduce of analyzeText: acc[word] = (acc[word] || 0) + 1.
RECURSIVE CountWords(_, _)
CountWords(words, acc) ==
    IF words = <<>> THEN acc
    ELSE LET word == Head(words)
             old  == IF word \in DOMAIN acc THEN acc[word] ELSE 0
         IN  CountWords(Tail(words),
                        [w \in DOMAIN acc \cup {word} |->
                            IF w = word THEN old + 1 ELSE acc[w]])

TokenCounts(text) ==
    LET words == SelectSeq(SplitNonWord(ToLowerCase(text)), LAMBDA word : Len(word) > 2)
    IN  CountWords(words, <<>>)

(***************************************************************************)
(* Reference data                                                          *)
(***************************************************************************)
\* Object.keys(categoryDefinitions), in declaration order.
CategoryKeys ==
    <<"distributionChannel", "accessLevel", "contentType", "writtenFormat",
      "fileType", "visualFormat", "interactiveFormat">>

Categories == Range(CategoryKeys)

\* categoryDefinitions[category].options
categoryDefinitions ==
    [distributionChannel |->
        <<"Social Media", "Newsletter", "Website", "Premium Content">>,
     accessLevel |-> <<"Public", "Members Only", "Premium">>,
     contentType |->
        <<"LONG FORM", "MEDIUM FORM", "QUICK TAKE", "VISUAL/INTERACTIVE">>,
     writtenFormat |->
        <<"Feature Article", "Standard Article", "Brief Article",
          "Technical Framework">>,
     fileType |-> <<"PDF", "Excel", "Web">>,
     visualFormat |->
        <<"Image Analysis", "Quote Card", "Carousel", "Infographic", "Video",
          "Reel/Story">>,
     interactiveFormat |->
        <<"Poll", "Thread", "Template", "Framework", "Dashboard", "Checklist">>]

SourceCorpus ==
    << [title |->
          <<"A", "d", "v", "a", "n", "c", "e", "d", " ", "A", "I", " ", "I",
            "m", "p", "l", "e", "m", "e", "n", "t", "a", "t", "i", "o", "n",
            " ", "G", "u", "i", "d", "e">>,
        description |->
          <<"C", "o", "m", "p", "r", "e", "h", "e", "n", "s", "i", "v", "e",
            " ", "g", "u", "i", "d", "e", " ", "f", "o", "r", " ", "i", "m",
            "p", "l", "e", "m", "e", "n", "t", "i", "n", "g", " ", "A", "I",
            " ", "s", "y", "s", "t", "e", "m", "s", " ", "w", "i", "t", "h",
            " ", "f", "o", "c", "u", "s", " ", "o", "n", " ", "h", "u", "m",
            "a", "n", "-", "c", "e", "n", "t", "e", "r", "e", "d", " ", "d",
            "e", "s", "i", "g", "n">>,
        distributionChannel |-> "Premium Content",
        accessLevel |-> "Premium",
        contentType |-> "LONG FORM",
        writtenFormat |-> "Technical Framework",
        fileType |-> "PDF",
        visualFormat |-> "Infographic",
        interactiveFormat |-> "Framework",
        tags |-> <<"#HumanFirstDesign", "#AIFoundations", "#ResponsibleScale">>],
       [title |->
          <<"Q", "u", "i", "c", "k", " ", "S", "o", "c", "i", "a", "l", " ",
            "M", "e", "d", "i", "a", " ", "U", "p", "d", "a", "t", "e", "s",
            " ", "o", "n", " ", "A", "I", " ", "N", "e", "w", "s">>,
        description |->
          <<"D", "a", "i", "l", "y", " ", "u", "p", "d", "a", "t", "e", "s",
            " ", "o", "n", " ", "A", "I", " ", "d", "e", "v", "e", "l", "o",
            "p", "m", "e", "n", "t", "s", " ", "f", "o", "r", " ", "s", "o",
            "c", "i", "a", "l", " ", "s", "h", "a", "r", "i", "n", "g">>,
        distributionChannel |-> "Social Media",
        accessLevel |-> "Public",
        contentType |-> "QUICK TAKE",
        writtenFormat |-> "Brief Article",
        fileType |-> "Web",
        visualFormat |-> "Quote Card",
        interactiveFormat |-> "Thread",
        tags |-> <<"#AINews", "#AIBreakthroughs">>] >>

\* The lower-cased combined texts of the corpus records, tokenized once: the
\* frequency map of a text does not depend on when it is computed.
CorpusTokenCounts ==
    [text \in {ToLowerCase(Template(SourceCorpus[i].title, SourceCorpus[i].description)) :
                  i \in DOMAIN SourceCorpus} |-> TokenCounts(text)]

analyzeText(text) ==
    IF text \in DOMAIN CorpusTokenCounts THEN CorpusTokenCounts[text] ELSE TokenCounts(text)

(***************************************************************************)
(* Similarity scorer                                                       *)
(*                                                                         *)
(* A similarity is the double  dot / (sqrt(mag1) * sqrt(mag2) || 1).  It   *)
(* is kept as the operands of that division: num / sqrt(rad), with err the *)
(* sign of the rounding error of the double against that real number when  *)
(* rad is a perfect square (0 otherwise).  rad = 0 stands for a division   *)
(* by zero (NaN).                                                          *)
(***************************************************************************)
RECURSIVE SumOver(_, _)
SumOver(S, f) ==
    IF S = {} THEN 0
    ELSE LET x == CHOOSE y \in S : TRUE IN f[x] + SumOver(S \ {x}, f)

\* IEEE-754 double rounding of Math.sqrt(mag1) * Math.sqrt(mag2) where
\* mag1 * mag2 is a perfect square r * r (magnitudes up to 40): the pairs
\* whose product comes out below r, and those whose product comes out above.
SqrtProductBelow ==
    {<<3, 3>>, <<3, 12>>, <<6, 6>>, <<6, 24>>, <<12, 3>>, <<12, 12>>,
     <<13, 13>>, <<18, 18>>, <<23, 23>>, <<24, 6>>, <<24, 24>>, <<26, 26>>,
     <<29, 29>>, <<31, 31>>, <<37, 37>>, <<38, 38>>}

SqrtProductAbove ==
    {<<2, 2>>, <<2, 8>>, <<2, 32>>, <<5, 5>>, <<5, 20>>, <<7, 7>>, <<7, 28>>,
     <<8, 2>>, <<8, 8>>, <<8, 32>>, <<10, 10>>, <<10, 40>>, <<15, 15>>,
     <<19, 19>>, <<20, 5>>, <<20, 20>>, <<28, 7>>, <<28, 28>>, <<32, 2>>,
     <<32, 8>>, <<32, 32>>, <<40, 10>>, <<40, 40>>}

\* Sign of the rounding error of the quotient: a denominator rounded below
\* its real value makes the quotient come out above, and conversely.
QuotientError(dot, mag1, mag2) ==
    IF dot = 0 THEN 0
    ELSE IF <<mag1, mag2>> \in SqrtProductBelow THEN 1
    ELSE IF <<mag1, mag2>> \in SqrtProductAbove THEN -1
    ELSE 0

\* freq[word] || 0
CountOf(freq, word) == IF word \in DOMAIN freq THEN freq[word] ELSE 0

\* dotProduct / (Math.sqrt(mag1) * Math.sqrt(mag2) || 1)
Quotient(dotProduct, mag1, mag2) ==
    IF mag1 * mag2 = 0
    THEN [num |-> dotProduct, rad |-> 1, err |-> 0]
    ELSE [num |-> dotProduct, rad |-> mag1 * mag2,
          err |-> QuotientError(dotProduct, mag1, mag2)]

\* The loop over the union of the two vocabularies.
Cosine(freq1, freq2) ==
    LET words == DOMAIN freq1 \cup DOMAIN freq2
    IN  Quotient(
            SumOver(words, [word \in words |-> CountOf(freq1, word) * CountOf(freq2, word)]),
            SumOver(words, [word \in words |-> CountOf(freq1, word) * CountOf(freq1, word)]),
            SumOver(words, [word \in words |-> CountOf(freq2, word) * CountOf(freq2, word)]))

calculateSimilarity(text1, text2) == Cosine(analyzeText(text1), analyzeText(text2))

\* a.similarity > b.similarity (the sign of b.similarity - a.similarity).
SimGreater(a, b) ==
    \/ a.num * a.num * b.rad > b.num * b.num * a.rad
    \/ /\ a.num * a.num * b.rad = b.num * b.num * a.rad
       /\ a.err > b.err

AtOrAboveFloor(s) == 100 * s.num * s.num >= s.rad

\* similarity > 0.1.  No quotient that is exactly one tenth as a real number
\* rounds above the double 0.1 (magnitudes up to 200), so the comparison is
\* the one of the real numbers.
AboveFloor(s) == 100 * s.num * s.num > s.rad

\* floor(10^digits * p / q) by long division, for 0 <= p and 0 < q.
RECURSIVE LongDivide(_, _, _, _)
LongDivide(quot, rem, q, digits) ==
    IF digits = 0 THEN quot
    ELSE LongDivide(quot * 10 + (rem * 10) \div q, (rem * 10) % q, q, digits - 1)

\* The largest n in lo..hi with n * n <= x.
RECURSIVE ISqrt(_, _, _)
ISqrt(x, lo, hi) ==
    IF lo = hi THEN lo
    ELSE LET mid == (lo + hi + 1) \div 2
         IN  IF mid * mid <= x THEN ISqrt(x, mid, hi) ELSE ISqrt(x, lo, mid - 1)

\* similarity * 100, in hundredths (truncated): floor(10^4 * num / sqrt(rad)).
\* Confidence accumulators are kept in hundredths.
Times100(s) ==
    LET p == s.num * s.num
        scaled == LongDivide(p \div s.rad, p % s.rad, s.rad, 8)
    IN  ISqrt(scaled, 0, 10000)

\* Math.round of a non-negative number given in hundredths: floor(x + 0.5).
MathRound(hundredths) == (hundredths + 50) \div 100

initialFormData ==
    [title |-> <<>>, description |-> <<>>, distributionChannel |-> "",
     accessLevel |-> "", contentType |-> "", writtenFormat |-> "",
     fileType |-> "", visualFormat |-> "", interactiveFormat |-> "",
     tags |-> <<>>]

VARIABLES
    historicalContent,  \* the corpus; reference data that no action changes
    formData,           \* useState<FormData>
    recommendations,    \* useState<Record<string, Recommendation[]>>
    patternInsights,    \* useState<PatternInsights | null>
    effectPending,      \* formData was replaced and the effect has not run yet
    lastRun,            \* what the latest run of the effect did
    edits,              \* number of input changes so far
    effectWrites,       \* setFormData calls of the effect since the last input change
    lastChanged         \* the field the last input change was made to

vars == <<historicalContent, formData, recommendations, patternInsights,
          effectPending, lastRun, edits, effectWrites, lastChanged>>

null == [null |-> TRUE]

(***************************************************************************)
(* Corpus matcher and category recommender                                 *)
(***************************************************************************)
\* Array.prototype.sort is stable: with the comparator b.similarity -
\* a.similarity an element goes before the first one it is strictly greater
\* than, and after every element it compares equal to.
RECURSIVE InsertBySimilarity(_, _)
InsertBySimilarity(x, sorted) ==
    IF sorted = <<>> THEN <<x>>
    ELSE IF SimGreater(x.similarity, Head(sorted).similarity) THEN <<x>> \o sorted
    ELSE <<Head(sorted)>> \o InsertBySimilarity(x, Tail(sorted))

RECURSIVE SortBySimilarity(_)
SortBySimilarity(s) ==
    IF s = <<>> THEN <<>>
    ELSE InsertBySimilarity(s[Len(s)], SortBySimilarity(SubSeq(s, 1, Len(s) - 1)))

RECURSIVE InsertByConfidenceTiesFirst(_, _)
InsertByConfidenceTiesFirst(x, sorted) ==
    IF sorted = <<>> THEN <<x>>
    ELSE IF x.confidence >= Head(sorted).confidence THEN <<x>> \o sorted
    ELSE <<Head(sorted)>> \o InsertByConfidenceTiesFirst(x, Tail(sorted))

\* The same stable sort with the comparator b.confidence - a.confidence.
RECURSIVE InsertByConfidence(_, _)
InsertByConfidence(x, sorted) ==
    IF sorted = <<>> THEN <<x>>
    ELSE IF x.confidence > Head(sorted).confidence THEN <<x>> \o sorted
    ELSE <<Head(sorted)>> \o InsertByConfidence(x, Tail(sorted))

RECURSIVE SortByConfidence(_)
SortByConfidence(s) ==
    IF s = <<>> THEN <<>>
    ELSE InsertByConfidence(s[Len(s)], SortByConfidence(SubSeq(s, 1, Len(s) - 1)))

\* historicalContent.map(...).filter(similarity > 0.1).sort(...)
MatchCorpus(combinedText) ==
    LET scored == [i \in DOMAIN historicalContent |->
                     [content |-> historicalContent[i],
                      similarity |->
                         calculateSimilarity(
                             ToLowerCase(combinedText),
                             ToLowerCase(Template(historicalContent[i].title,
                                                  historicalContent[i].description)))]]
    IN  SortBySimilarity(SelectSeq(scored, LAMBDA m : AboveFloor(m.similarity)))

RECURSIVE AccumulateLargest(_, _, _)
AccumulateLargest(similarContent, category, categoryScores) ==
    IF similarContent = <<>> THEN categoryScores
    ELSE LET m == Head(similarContent)
             value == m.content[category]
         IN  AccumulateLargest(Tail(similarContent), category,
                IF value \in DOMAIN categoryScores
                THEN [categoryScores EXCEPT
                        ![value] = [confidence |->
                                       IF Times100(m.similarity) > @.confidence
                                       THEN Times100(m.similarity) ELSE @.confidence,
                                    count |-> @.count + 1]]
                ELSE categoryScores)

\* similarContent.forEach: a record whose value for the category is a key of
\* categoryScores adds similarity * 100 to that option and counts once.
RECURSIVE Accumulate(_, _, _)
Accumulate(similarContent, category, categoryScores) ==
    IF similarContent = <<>> THEN categoryScores
    ELSE LET m == Head(similarContent)
             value == m.content[category]
         IN  Accumulate(Tail(similarContent), category,
                IF value \in DOMAIN categoryScores
                THEN [categoryScores EXCEPT
                        ![value] = [confidence |-> @.confidence + Times100(m.similarity),
                                    count |-> @.count + 1]]
                ELSE categoryScores)

\* Object.entries(categoryScores).map(...): one entry per option, in the
\* order the options were inserted.
Entries(options, categoryScores) ==
    [i \in DOMAIN options |->
        [value |-> options[i],
         confidence |-> MathRound(categoryScores[options[i]].confidence),
         similar |-> categoryScores[options[i]].count]]

\* categoryScores[option] = { confidence: 0, count: 0 } for every option.
ZeroScores(options) == [option \in Range(options) |-> [confidence |-> 0, count |-> 0]]

CategoryRecommendationsUnfiltered(similarContent, category) ==
    SortByConfidence(
        Entries(categoryDefinitions[category],
                Accumulate(similarContent, category,
                           ZeroScores(categoryDefinitions[category]))))

\* Object.entries(categoryScores).map(...).filter(confidence > 0).sort(...)
CategoryRecommendations(similarContent, category) ==
    SortByConfidence(
        SelectSeq(Entries(categoryDefinitions[category],
                          Accumulate(similarContent, category,
                                     ZeroScores(categoryDefinitions[category]))),
                  LAMBDA rec : rec.confidence > 0))

\* The result object for a non-empty combined text.
Recommend(similarContent) ==
    [recommendations |->
        [category \in Categories |-> CategoryRecommendations(similarContent, category)],
     similarContent |-> similarContent]

generateRecommendations(title, description) ==
    IF Trim(Template(title, description)) = <<>>
    THEN [recommendations |-> <<>>, similarContent |-> <<>>]
    ELSE Recommend(MatchCorpus(Trim(Template(title, description))))

(***************************************************************************)
(* Inputs                                                                  *)
(***************************************************************************)
MaxEdits == 3

TitleInputs ==
    { <<>>,
      <<" ">>,
      <<"f", "o", "r", " ", "x", "x", "x">>,
      <<"G", "u", "i", "d", "e", "!", " ", "x", "x", "x">>,
      <<"f", "o", "r", " ", "u", "p", "d", "a", "t", "e", "s">>,
      <<"x", "x", "x", " ", "y", "y", "y", " ", "z", "z", "z">>,
      <<"a", "a", "a", " ", "x", "x", "x", " ", "x", "x", "x", " ", "x", "x", "x">> }

DescriptionInputs ==
    { <<>>,
      <<" ">>,
      <<"y", "y", "y">>,
      <<"A", "I">> }

(***************************************************************************)
(* The form                                                                *)
(***************************************************************************)
Init ==
    /\ historicalContent = SourceCorpus
    /\ formData = initialFormData
    /\ recommendations = <<>>
    /\ patternInsights = null
    /\ effectPending = TRUE
    /\ lastRun = "none"
    /\ edits = 0
    /\ effectWrites = 0
    /\ lastChanged = "none"

\* Array.prototype.slice(0, n)
Slice(s, n) == SubSeq(s, 1, IF Len(s) < n THEN Len(s) ELSE n)

UpdatedFieldsOnlyUnset(recs, data) ==
    {category \in DOMAIN recs :
        /\ Len(recs[category]) > 0
        /\ recs[category][1].confidence > 30
        /\ category # "tags"
        /\ data[category] = ""}

UpdatedFieldsFrom30(recs, data) ==
    {category \in DOMAIN recs :
        /\ Len(recs[category]) > 0
        /\ recs[category][1].confidence >= 30
        /\ category # "tags"
        /\ data[category] # recs[category][1].value}

UpdatedFieldsUncompared(recs, data) ==
    {category \in DOMAIN recs :
        /\ Len(recs[category]) > 0
        /\ recs[category][1].confidence > 30
        /\ category # "tags"}

\* The fields the effect overwrites: categories whose first recommendation
\* has confidence > 30 and differs from the value the form holds.
UpdatedFields(recs, data) ==
    {category \in DOMAIN recs :
        /\ Len(recs[category]) > 0
        /\ recs[category][1].confidence > 30
        /\ category # "tags"
        /\ data[category] # recs[category][1].value}

\* useEffect(..., [formData, generateRecommendations]): runs after every
\* render in which formData was replaced, the first render included.
\* The body of the effect past its guard: the three state updates.
ApplyResults(results, updatedFields) ==
    /\ recommendations' = results.recommendations
    /\ formData' = [key \in DOMAIN formData |->
                      IF key \in updatedFields
                      THEN results.recommendations[key][1].value
                      ELSE formData[key]]
    /\ effectPending' = (updatedFields # {})
    /\ effectWrites' = IF updatedFields # {} THEN effectWrites + 1 ELSE effectWrites
    /\ patternInsights' =
          IF Len(results.similarContent) > 0
          THEN [similarContent |-> Slice(results.similarContent, 3),
                topMatches |-> Len(results.similarContent)]
          ELSE patternInsights

Recompute(results) ==
    ApplyResults(results, UpdatedFields(results.recommendations, formData))

RunEffect ==
    /\ effectPending
    /\ IF formData.title = <<>> \/ formData.description = <<>>
       THEN /\ lastRun' = "skipped"
            /\ effectPending' = FALSE
            /\ UNCHANGED <<formData, recommendations, patternInsights, effectWrites>>
       ELSE /\ Recompute(generateRecommendations(formData.title, formData.description))
            /\ lastRun' = "recomputed"
    /\ UNCHANGED <<historicalContent, edits, lastChanged>>

\* handleInputChange(name, value): setFormData(prev => ({...prev, [name]: value})).
\* Input events are handled once the effects of the previous one have run.
handleInputChange(name, value) ==
    /\ ~effectPending
    /\ edits < MaxEdits
    /\ formData' = [formData EXCEPT ![name] = value]
    /\ effectPending' = TRUE
    /\ edits' = edits + 1
    /\ effectWrites' = 0
    /\ lastChanged' = name
    /\ UNCHANGED <<historicalContent, recommendations, patternInsights, lastRun>>

ChangeTitle == \E value \in TitleInputs : handleInputChange("title", value)

ChangeDescription ==
    \E value \in DescriptionInputs : handleInputChange("description", value)

ChangeCategory ==
    \E category \in Categories :
        \E value \in Range(categoryDefinitions[category]) :
            handleInputChange(category, value)

Next ==
    \/ ChangeTitle
    \/ ChangeDescription
    \/ ChangeCategory
    \/ RunEffect

Spec == Init /\ [][Next]_vars

(***************************************************************************)
(* The same form over other corpora.  historicalContent is data: the       *)
(* matcher and the recommender are the same functions of whatever records  *)
(* it holds, so they are also run on small corpora in which several        *)
(* records share a category value, a record has no value for a category,   *)
(* and a record scores exactly 0.1 or repeats the typed text.              *)
(***************************************************************************)
MaxCorpus == 3

HistoricalRecord(title, contentType) ==
    [title |-> title, description |-> <<>>, distributionChannel |-> "",
     accessLevel |-> "", contentType |-> contentType, writtenFormat |-> "",
     fileType |-> "", visualFormat |-> "", interactiveFormat |-> "",
     tags |-> <<>>]

RecordPool ==
    { HistoricalRecord(<<"x", "x", "x">>, "LONG FORM"),
      HistoricalRecord(<<"y", "y", "y">>, "LONG FORM"),
      HistoricalRecord(<<"X", "x", "x", ",", " ", "y", "y", "y", " ", "z", "z", "z">>,
                       "QUICK TAKE"),
      HistoricalRecord(<<"a", "a", "a", " ", "c", "c", "c", " ", "c", "c", "c", " ",
                         "c", "c", "c">>, "") }

\* Corpora of distinct records.
Corpora ==
    {corpus \in UNION {[1..n -> RecordPool] : n \in 1..MaxCorpus} :
        \A i, j \in DOMAIN corpus : i # j => corpus[i] # corpus[j]}

InitCorpus ==
    /\ historicalContent \in Corpora
    /\ formData = initialFormData
    /\ recommendations = <<>>
    /\ patternInsights = null
    /\ effectPending = TRUE
    /\ lastRun = "none"
    /\ edits = 0
    /\ effectWrites = 0
    /\ lastChanged = "none"

NextCorpus ==
    \/ ChangeTitle
    \/ ChangeDescription
    \/ RunEffect

SpecCorpus == InitCorpus /\ [][NextCorpus]_vars

(***************************************************************************)
(* Properties                                                              *)
(***************************************************************************)
\* The form is at rest after an effect run that recomputed recommendations.
Settled == ~effectPending

Scored == Settled /\ lastRun = "recomputed"

IsBlank(text) == \A i \in DOMAIN text : text[i] \in WhiteSpace

\* Position of a value in a sequence without repetitions.
IndexOf(s, v) == CHOOSE i \in DOMAIN s : s[i] = v

\* C1: once a recomputation has settled, every category whose top-ranked
\* recommendation has confidence > 30 holds that recommendation's value in
\* the form, whatever the field held before.
C1_AutoApplied ==
    Scored =>
        \A category \in DOMAIN recommendations :
            (/\ Len(recommendations[category]) > 0
             /\ recommendations[category][1].confidence > 30)
            => formData[category] = recommendations[category][1].value

C1_Witness ==
    /\ Scored
    /\ \E category \in DOMAIN recommendations :
          /\ Len(recommendations[category]) > 1
          /\ recommendations[category][1].confidence > 30
          /\ formData[category] = recommendations[category][1].value
          /\ IndexOf(categoryDefinitions[category], recommendations[category][1].value)
                > IndexOf(categoryDefinitions[category], recommendations[category][2].value)

\* C2: a run of the effect changes a form field only if it is a category
\* whose top-ranked recommendation has confidence > 30, and only to that
\* recommendation's value; title, description and tags are never changed.
C2_OnlyTopAbove30 ==
    [][effectPending =>
        \A key \in DOMAIN formData :
            formData'[key] # formData[key] =>
                /\ key \in Categories
                /\ key \in DOMAIN recommendations'
                /\ Len(recommendations'[key]) > 0
                /\ recommendations'[key][1].confidence > 30
                /\ formData'[key] = recommendations'[key][1].value]_vars

C2_Witness ==
    /\ Scored
    /\ \E category \in DOMAIN recommendations :
          /\ Len(recommendations[category]) > 0
          /\ recommendations[category][1].confidence = 30
          /\ formData[category] # recommendations[category][1].value

\* C3: when title and description are both blank, the matcher returns no
\* match, the recommender returns the empty mapping, and a run of the effect
\* changes no form field.
C3_BlankText ==
    [][(IsBlank(formData.title) /\ IsBlank(formData.description)) =>
        /\ generateRecommendations(formData.title, formData.description)
              = [recommendations |-> <<>>, similarContent |-> <<>>]
        /\ effectPending => formData' = formData]_vars

C3_Witness ==
    /\ Scored
    /\ formData.title # <<>>
    /\ IsBlank(formData.title)
    /\ IsBlank(formData.description)
    /\ recommendations = <<>>
    /\ patternInsights # null

\* C4: no recommendation list holds an entry with confidence <= 0.
C4_PositiveConfidence ==
    \A category \in DOMAIN recommendations :
        \A i \in DOMAIN recommendations[category] :
            recommendations[category][i].confidence > 0

C4_Witness ==
    \E category \in DOMAIN recommendations :
        /\ Len(recommendations[category]) = 1
        /\ recommendations[category][1].confidence > 0

\* C5: within a category's list confidence never increases from one entry
\* to the next, and entries of equal confidence are in the order of the
\* category's declared options.
C5_RankedStable ==
    \A category \in DOMAIN recommendations :
        \A i, j \in DOMAIN recommendations[category] :
            i < j =>
                LET a == recommendations[category][i]
                    b == recommendations[category][j]
                IN  /\ a.confidence >= b.confidence
                    /\ a.confidence = b.confidence =>
                          IndexOf(categoryDefinitions[category], a.value)
                             < IndexOf(categoryDefinitions[category], b.value)

C5_Witness ==
    \E category \in DOMAIN recommendations :
        /\ Len(recommendations[category]) = 2
        /\ recommendations[category][1].confidence = recommendations[category][2].confidence

\* The similarity of the typed text to the i-th corpus record.
SimilarityTo(i) ==
    calculateSimilarity(
        ToLowerCase(Trim(Template(formData.title, formData.description))),
        ToLowerCase(Template(historicalContent[i].title, historicalContent[i].description)))

SameSimilarity(a, b) == ~SimGreater(a, b) /\ ~SimGreater(b, a)

\* The matcher's result is right for the typed text: the records of the
\* corpus scoring strictly above one tenth, each with its score, by
\* non-increasing score, equal scores in corpus order.
MatcherResultIs(similarContent) ==
    /\ \A i \in DOMAIN historicalContent :
          (100 * SimilarityTo(i).num * SimilarityTo(i).num > SimilarityTo(i).rad)
          <=> \E k \in DOMAIN similarContent :
                  /\ similarContent[k].content = historicalContent[i]
                  /\ similarContent[k].similarity = SimilarityTo(i)
    /\ Len(similarContent)
          = Cardinality({i \in DOMAIN historicalContent :
                            100 * SimilarityTo(i).num * SimilarityTo(i).num
                               > SimilarityTo(i).rad})
    /\ \A k, l \in DOMAIN similarContent :
          k < l =>
             /\ ~SimGreater(similarContent[l].similarity, similarContent[k].similarity)
             /\ SameSimilarity(similarContent[k].similarity, similarContent[l].similarity)
                   => IndexOf(historicalContent, similarContent[k].content)
                         < IndexOf(historicalContent, similarContent[l].content)

NonBlankText == ~IsBlank(Template(formData.title, formData.description))

\* C6: the matcher returns exactly the records whose similarity to the typed
\* text is strictly greater than 0.1, by non-increasing similarity, records
\* of equal similarity in corpus order.
C6_MatcherResult ==
    NonBlankText =>
        MatcherResultIs(
            generateRecommendations(formData.title, formData.description).similarContent)

\* A record scoring exactly 0.1 is left out, and the sort has moved a later
\* record of the corpus in front of an earlier one.
C6_Witness ==
    /\ Scored
    /\ \E i \in DOMAIN historicalContent :
          100 * SimilarityTo(i).num * SimilarityTo(i).num = SimilarityTo(i).rad
    /\ patternInsights # null
    /\ patternInsights.similarContent
          = generateRecommendations(formData.title, formData.description).similarContent
    /\ patternInsights.topMatches = 2
    /\ SimGreater(patternInsights.similarContent[1].similarity,
                  patternInsights.similarContent[2].similarity)
    /\ IndexOf(historicalContent, patternInsights.similarContent[1].content)
          > IndexOf(historicalContent, patternInsights.similarContent[2].content)

\* The matched records that hold `option` for `category`.
Voters(similarContent, category, option) ==
    {k \in DOMAIN similarContent : similarContent[k].content[category] = option}

VotesFor(similarContent, category, option) ==
    SumOver(Voters(similarContent, category, option),
            [k \in DOMAIN similarContent |-> Times100(similarContent[k].similarity)])

\* The recommendation lists are the additive vote over the matches.
VoteIs(recs, similarContent) ==
    \A category \in Categories :
        \A option \in Range(categoryDefinitions[category]) :
            LET entries == {i \in DOMAIN recs[category] : recs[category][i].value = option}
            IN  IF MathRound(VotesFor(similarContent, category, option)) > 0
                THEN /\ Cardinality(entries) = 1
                     /\ \A i \in entries :
                           /\ recs[category][i].confidence
                                 = MathRound(VotesFor(similarContent, category, option))
                           /\ recs[category][i].similar
                                 = Cardinality(Voters(similarContent, category, option))
                ELSE entries = {}

\* C7: for each category and declared option the emitted confidence is the
\* rounded sum of similarity * 100 over the matched records holding that
\* option, and similar is the number of those records.
C7_AdditiveVote ==
    (Scored /\ NonBlankText) =>
        VoteIs(recommendations,
               generateRecommendations(formData.title, formData.description).similarContent)

\* Two records of moderate similarity outrank the single most similar one.
C7_Witness ==
    /\ Scored
    /\ DOMAIN recommendations = Categories
    /\ Len(recommendations.contentType) = 2
    /\ recommendations.contentType[1].similar = 2
    /\ recommendations.contentType[2].similar = 1
    /\ patternInsights # null
    /\ patternInsights.similarContent[1].content.contentType
          = recommendations.contentType[2].value
    /\ patternInsights.topMatches = 3

\* The double num / sqrt(rad) lies in [0, 1]: it is a number, it is not
\* negative, and it is below 1 or it is 1 and was not rounded upwards.
InUnitInterval(s) ==
    /\ s.rad > 0
    /\ s.num >= 0
    /\ \/ s.num * s.num < s.rad
       \/ s.num * s.num = s.rad /\ s.err <= 0

\* C8: calculateSimilarity returns a number in [0, 1] for any two strings.
C8_UnitInterval ==
    \A i \in DOMAIN historicalContent : InUnitInterval(SimilarityTo(i))

\* What the effect exposes when it recomputes from the typed text.
InsightsOf(similarContent) ==
    IF Len(similarContent) > 0
    THEN [similarContent |-> Slice(similarContent, 3), topMatches |-> Len(similarContent)]
    ELSE null

\* The render gate: patternInsights?.similarContent && length > 0.
InsightsShown ==
    patternInsights # null /\ Len(patternInsights.similarContent) > 0

\* C9: every change of title or description that leaves the combined text
\* non-blank ends with the form scored: the effect has recomputed, and the
\* recommendations are those of the typed text.
C9_ScoredAfterChange ==
    (Settled /\ NonBlankText) =>
        /\ lastRun = "recomputed"
        /\ recommendations
              = generateRecommendations(formData.title, formData.description).recommendations

\* C10: at rest, the recommendations and the insights on display are
\* exactly those derived from the current title and description, and
\* insights are on display only when the current text has a match.
C10_DerivedFromCurrentText ==
    Settled =>
        /\ recommendations
              = generateRecommendations(formData.title, formData.description).recommendations
        /\ IF InsightsShown
           THEN patternInsights
                   = InsightsOf(generateRecommendations(formData.title,
                                                        formData.description).similarContent)
           ELSE generateRecommendations(formData.title,
                                        formData.description).similarContent = <<>>

\* Every category whose top-ranked recommendation has confidence > 30
\* holds that recommendation's value.
TopApplied(recs, data) ==
    \A category \in DOMAIN recs :
        (/\ Len(recs[category]) > 0
         /\ recs[category][1].confidence > 30)
        => data[category] = recs[category][1].value

\* The re-run caused by the effect's own write is due.
RerunDue == effectPending /\ effectWrites > 0

\* C11: after an input change the effect writes the form at most once;
\* when the re-run caused by that write is due, every category field
\* already equals the top recommendation of the typed text, and the re-run
\* leaves the form as it is and at rest.
C11_WritesOnceThenStable ==
    /\ [](effectWrites <= 1)
    /\ [](RerunDue =>
            TopApplied(generateRecommendations(formData.title,
                                               formData.description).recommendations,
                       formData))
    /\ [][RerunDue => (formData' = formData /\ ~effectPending')]_vars

C11_Witness ==
    /\ Settled
    /\ effectWrites = 1
    /\ lastRun = "recomputed"
    /\ recommendations
          = generateRecommendations(formData.title, formData.description).recommendations

\* C12: an input change to a category field changes that field alone, and
\* the run of the effect that follows it leaves the form as the user set
\* it: the field keeps the chosen value, also when the top recommendation
\* of its category has confidence > 30 and another value.
C12_CategoryChoiceKept ==
    [][/\ (~effectPending /\ lastChanged' \in Categories) =>
             \A key \in DOMAIN formData :
                 key # lastChanged' => formData'[key] = formData[key]
       /\ (effectPending /\ lastChanged \in Categories) => formData' = formData]_vars

=============================================================================
